---------------------------- MODULE Spec2Model ----------------------------
(***************************************************************************)
(* Model of the collision demo page (pages/index.tsx and its second copy). *)
(* The page keeps two refs (engineRef, renderRef) and React state; its two *)
(* handlers, handleStart and handleReset, build and tear down a matter-js  *)
(* engine.  The asynchronous parts are the Runner's animation-frame loop   *)
(* (one Engine.update per frame, which runs the collisionStart and the     *)
(* afterUpdate handlers) and the setTimeout callbacks that undo a squish.  *)
(*                                                                         *)
(* Numbers that the code computes in floating point (scale factors, sizes, *)
(* masses) are exact rationals <<numerator, denominator>> here.            *)
(***************************************************************************)
EXTENDS Integers, Sequences, FiniteSets, TLC

\* ------------------------------------------------------------------ bounds
MaxEngines == 2      \* handleStart calls in one run
MaxSquishes == 2     \* squishes (collisions of a rubber square) in one run
MaxEdits == 1        \* changes of the configuration form in one run

\* ------------------------------------------------------------- rationals
RECURSIVE GCD(_, _)
GCD(a, b) == IF b = 0 THEN a ELSE GCD(b, a % b)

Rat(n, d) == LET g == GCD(n, d) IN <<n \div g, d \div g>>
RatMul(p, q) == Rat(p[1] * q[1], p[2] * q[2])
RatInv(p) == <<p[2], p[1]>>
RatOfInt(n) == <<n, 1>>
RatAdd(p, q) == Rat(p[1] * q[2] + q[1] * p[2], p[2] * q[2])
RatSub(p, q) == Rat(p[1] * q[2] - q[1] * p[2], p[2] * q[2])

\* ------------------------------------------------------ program constants
Pages == {"index", "part_000"}

MaterialNames == {"rubber", "metal", "wood", "plastic"}

materials ==
    [m \in MaterialNames |->
        CASE m = "rubber"  -> Rat(9, 10)
          [] m = "metal"   -> Rat(2, 10)
          [] m = "wood"    -> Rat(5, 10)
          [] m = "plastic" -> Rat(7, 10)]

\* The range inputs: min 30, max 150, initially 60.
Sizes == {30, 60, 150}
\* The mass sliders of the second copy: min 1, max 10, initially 1.
Masses == {1, 10}
\* The form as the user has filled it in when a run begins: samples of
\* <<sizeLeft, sizeRight, massLeft, massRight, materialLeft, materialRight>>,
\* the first being the form's initial values.
Forms ==
    {<<60, 60, 1, 1, "rubber", "rubber">>,
     <<150, 30, 10, 1, "metal", "wood">>,
     <<30, 60, 1, 10, "rubber", "plastic">>}

\* The scene's width and height in pixels: a sample.
Views == {<<800, 400>>}
\* Scenes from a desktop window down to a collapsed container.
Arenas == {<<800, 400>>, <<640, 140>>, <<320, 240>>, <<120, 120>>, <<0, 0>>}

SquishX == Rat(12, 10)
SquishY == Rat(8, 10)

Dynamic == {"left", "right"}
Walls == {"ground", "ceiling", "leftWall", "rightWall"}
BodyNames == Walls \cup Dynamic

Infinity == <<1, 0>>
DefaultLabel == "Rectangle Body"

VARIABLES
    page,                  \* which copy of the page is mounted
    view,                  \* <<width, height>> of the scene
    sizeLeft, sizeRight, massLeft, massRight, materialLeft, materialRight,
    started, velocityLeftDisplay, velocityRightDisplay,
    engineRef, renderRef,  \* 0 is null, else an index into engines
    engines,               \* every engine created so far, with its world
    canvases,              \* the engines whose canvas is a child of the scene
    timers,                \* pending setTimeout callbacks, oldest first
    mutations,             \* Matter.Body.scale calls so far, on any body
    edits,                 \* changes of the form so far
    contacts,              \* per square, the pairs so far that held it in an
                           \* event while it squishes on contact
    lastCall               \* the handler that ran last

config == <<sizeLeft, sizeRight, massLeft, massRight, materialLeft, materialRight>>
display == <<velocityLeftDisplay, velocityRightDisplay>>
refs == <<engineRef, renderRef>>
pageState == <<page, view, config, started, display, refs, engines, canvases, timers>>
vars == <<pageState, mutations, edits, contacts, lastCall>>

Abs(n) == IF n < 0 THEN -n ELSE n

\* --------------------------------------------------------------- bodies
\* Matter.Bodies.rectangle(x, y, w, h, {isStatic: true, restitution: 1, ...})
StaticBody(w, h) ==
    [isStatic |-> TRUE, label |-> DefaultLabel, restitution |-> RatOfInt(1),
     width |-> RatOfInt(w), height |-> RatOfInt(h), mass |-> Infinity, vx |-> 0]

\* The four bounds of pages/index.tsx: 50 thick, as long as the scene.
bounds(v) ==
    [b \in Walls |->
        IF b \in {"ground", "ceiling"} THEN StaticBody(v[1], 50)
                                       ELSE StaticBody(50, v[2])]

\* The four bounds of the second copy: 100 thick.
boundsCopy(v) ==
    [b \in Walls |->
        IF b \in {"ground", "ceiling"} THEN StaticBody(v[1], 100)
                                       ELSE StaticBody(100, v[2])]

\* createSquare of pages/index.tsx: the mass is size * size / 1000.
createSquare(size, material) ==
    [isStatic |-> FALSE, label |-> material, restitution |-> materials[material],
     width |-> RatOfInt(size), height |-> RatOfInt(size),
     mass |-> Rat(size * size, 1000), vx |-> 0]

\* createSquare of the second copy: the mass is the slider's value.
createSquareCopy(size, mass, material) ==
    [isStatic |-> FALSE, label |-> material, restitution |-> materials[material],
     width |-> RatOfInt(size), height |-> RatOfInt(size),
     mass |-> RatOfInt(mass), vx |-> 0]

\* Where handleStart of pages/index.tsx puts the centres of the six bodies:
\* the bounds just outside the scene, the squares 50 from its sides at half
\* its height.
positions(v, sl, sr) ==
    [b \in BodyNames |->
        CASE b = "ground"    -> <<Rat(v[1], 2), RatOfInt(v[2] + 25)>>
          [] b = "ceiling"   -> <<Rat(v[1], 2), RatOfInt(-25)>>
          [] b = "leftWall"  -> <<RatOfInt(-25), Rat(v[2], 2)>>
          [] b = "rightWall" -> <<RatOfInt(v[1] + 25), Rat(v[2], 2)>>
          [] b = "left"      -> <<RatAdd(RatOfInt(50), Rat(sl, 2)), Rat(v[2], 2)>>
          [] b = "right"     -> <<RatSub(RatOfInt(v[1] - 50), Rat(sr, 2)), Rat(v[2], 2)>>]

\* Where handleStart of the second copy puts them: the squares 200 from the
\* window's sides, whatever their size.
positionsCopy(v) ==
    [b \in BodyNames |->
        CASE b = "ground"    -> <<Rat(v[1], 2), RatOfInt(v[2] + 50)>>
          [] b = "ceiling"   -> <<Rat(v[1], 2), RatOfInt(-50)>>
          [] b = "leftWall"  -> <<RatOfInt(-50), Rat(v[2], 2)>>
          [] b = "rightWall" -> <<RatOfInt(v[1] + 50), Rat(v[2], 2)>>
          [] b = "left"      -> <<RatOfInt(200), Rat(v[2], 2)>>
          [] b = "right"     -> <<RatOfInt(v[1] - 200), Rat(v[2], 2)>>]

worldPositions(p, v, sl, sr) ==
    IF p = "index" THEN positions(v, sl, sr) ELSE positionsCopy(v)

\* const speed = 25 (pages/index.tsx), 15 (the second copy)
speed(p) == IF p = "index" THEN 25 ELSE 15

\* Matter.Body.setVelocity(body, {x: v, y: 0})
setVelocity(body, v) == [body EXCEPT !.vx = v]

\* The bodies handleStart adds to the world, launched.
worldBodies(p, v, sl, sr, ml, mr, matl, matr) ==
    LET walls == IF p = "index" THEN bounds(v) ELSE boundsCopy(v)
        left  == IF p = "index" THEN createSquare(sl, matl)
                                ELSE createSquareCopy(sl, ml, matl)
        right == IF p = "index" THEN createSquare(sr, matr)
                                ELSE createSquareCopy(sr, mr, matr)
    IN [b \in BodyNames |->
          CASE b = "left"  -> setVelocity(left, speed(p))
            [] b = "right" -> setVelocity(right, -speed(p))
            [] OTHER       -> walls[b]]

\* Engine.create, Runner.run, Render.run and World.add of handleStart.  The
\* record keeps what the page can observe of one engine: whether its runner
\* and its renderer loop, the bodies in its world, every body the handlers'
\* closures hold (body), those bodies as they were made (made) and where
\* their centres were put (at).
newEngine(bodies, at) ==
    [runner |-> TRUE, render |-> TRUE, world |-> BodyNames, body |-> bodies,
     made |-> bodies, at |-> at]

\* ------------------------------------------------------------- teardown
\* if (renderRef.current) { Matter.Render.stop(...); ... }
stopRender(es, r) == IF r = 0 THEN es ELSE [es EXCEPT ![r].render = FALSE]

\* canvas.parentNode?.removeChild(canvas) / canvas.remove()
removeCanvas(cs, r) == IF r = 0 THEN cs ELSE cs \ {r}

\* if (engineRef.current) { Matter.World.clear(world, true);
\* Matter.Engine.clear(engine); ... }: keepStatic leaves the bounds in the
\* world; the runner started by Runner.run is not stopped and the handlers
\* registered with Events.on stay registered.
clearEngine(es, e) == IF e = 0 THEN es ELSE [es EXCEPT ![e].world = Walls]

\* ---------------------------------------------------------- deformation
\* Matter.Body.scale(body, sx, sy): the vertices are scaled about the
\* position, and the mass is set again from the density and the new area.
scale(body, sx, sy) ==
    [body EXCEPT !.width = RatMul(@, sx), !.height = RatMul(@, sy),
                 !.mass = RatMul(@, RatMul(sx, sy))]

\* Matter.Body.scale(body, 1.2, 0.8)
squish(body) == scale(body, SquishX, SquishY)

restoreSwapped(body) == scale(body, RatInv(SquishY), RatInv(SquishX))

\* setTimeout(() => Matter.Body.scale(body, 1/1.2, 1/0.8), 50)
restore(body) == scale(body, RatInv(SquishX), RatInv(SquishY))

shouldSquishAnyMaterial(body) == ~body.isStatic

\* if (!body.isStatic && body.label === 'rubber')
shouldSquish(body) == ~body.isStatic /\ body.label = "rubber"

\* The body of the inner forEach, on st = [body, timers, mutations].
onCollision(st, w, b) ==
    IF shouldSquish(st.body[b])
    THEN [body |-> [st.body EXCEPT ![b] = squish(@)],
          timers |-> Append(st.timers, <<w, b>>),
          mutations |-> st.mutations + 1]
    ELSE st

RECURSIVE collisionStartBothWays(_, _, _)
collisionStartBothWays(st, w, pairs) ==
    IF pairs = <<>> THEN st
    ELSE collisionStartBothWays(
             onCollision(onCollision(onCollision(onCollision(st, w, pairs[1][1]),
                 w, pairs[1][2]), w, pairs[1][2]), w, pairs[1][1]),
             w, Tail(pairs))

\* event.pairs.forEach(pair => [pair.bodyA, pair.bodyB].forEach(...))
RECURSIVE collisionStart(_, _, _)
collisionStart(st, w, pairs) ==
    IF pairs = <<>> THEN st
    ELSE collisionStart(onCollision(onCollision(st, w, pairs[1][1]), w, pairs[1][2]),
                        w, Tail(pairs))

\* The number of callbacks the event's handler will schedule.
RECURSIVE squishes(_, _)
squishes(bodies, pairs) ==
    IF pairs = <<>> THEN 0
    ELSE (IF shouldSquish(bodies[pairs[1][1]]) THEN 1 ELSE 0)
       + (IF shouldSquish(bodies[pairs[1][2]]) THEN 1 ELSE 0)
       + squishes(bodies, Tail(pairs))

neverDue(ts) == FALSE

\* setTimeout(..., 50): a pending callback becomes due.
due(ts) == ts # <<>>

\* The callback queue after the oldest callback has run.
afterTimer(ts) == Tail(ts)

\* ------------------------------------------------- one Engine.update
\* The pairs one collisionStart event may carry: pairs of bodies of the
\* world, at least one of which moves.  Which bodies overlap is decided by
\* the engine's detector from positions this model does not keep, so a
\* frame may report any of them.
PairCandidates ==
    <<<<"leftWall", "left">>, <<"left", "right">>, <<"right", "rightWall">>,
      <<"ground", "left">>, <<"ceiling", "right">>>>

\* The pairs of one event, as the list the handler's forEach walks: the
\* candidates numbered in `chosen`, in the candidates' order.
RECURSIVE pairList(_, _)
pairList(chosen, i) ==
    IF i > Len(PairCandidates) THEN <<>>
    ELSE IF i \in chosen THEN <<PairCandidates[i]>> \o pairList(chosen, i + 1)
                         ELSE pairList(chosen, i + 1)

\* The events a frame may fire in a world holding the bodies `world`.
pairLists(world) ==
    {pairList(chosen, 1) :
        chosen \in SUBSET {i \in 1..Len(PairCandidates) :
                             /\ PairCandidates[i][1] \in world
                             /\ PairCandidates[i][2] \in world}}

\* The number of the event's pairs that hold body b.
holding(b, pairs) ==
    Cardinality({i \in 1..Len(pairs) : b \in {pairs[i][1], pairs[i][2]}})

\* Before the first frame no pair has been handled.
NoContacts == [b \in Dynamic |-> 0]

involved(b, pairs) == \E i \in 1..Len(pairs) : b \in {pairs[i][1], pairs[i][2]}

\* The velocities the engine's resolver may leave a body with after a frame
\* in which it collides: samples, the launch speed either way.
vxAfter(body, hit, s) == IF hit THEN {-s, s} ELSE {body.vx}

\* Matter.Events.on(engine, 'afterUpdate', ...): Math.abs(body.velocity.x)
speedOf(body) == Abs(body.vx)

\* One frame of the runner of engine w: Engine.update, which fires
\* collisionStart with the frame's new pairs and then afterUpdate.  Every
\* squish is one scale call and one pending callback, every restore turns a
\* pending callback into a scale call: (mutations + Len(timers)) / 2 is the
\* number of squishes so far, which the first conjunct on the pairs keeps
\* within MaxSquishes.
Tick(w) ==
    /\ w \in 1..Len(engines)
    /\ engines[w].runner
    /\ \E pairs \in pairLists(engines[w].world) :
         /\ mutations + Len(timers) + 2 * squishes(engines[w].body, pairs)
               <= 2 * MaxSquishes
         /\ LET e  == engines[w]
                st == collisionStart([body |-> e.body, timers |-> timers,
                                      mutations |-> mutations], w, pairs)
            IN \E vl \in vxAfter(e.body["left"], involved("left", pairs), speed(page)),
                  vr \in vxAfter(e.body["right"], involved("right", pairs), speed(page)) :
                 LET bs == [st.body EXCEPT !["left"] = setVelocity(@, vl),
                                           !["right"] = setVelocity(@, vr)]
                 IN /\ engines' = [engines EXCEPT ![w].body = bs]
                    /\ timers' = st.timers
                    /\ mutations' = st.mutations
                    /\ velocityLeftDisplay' = speedOf(bs["left"])
                    /\ velocityRightDisplay' = speedOf(bs["right"])
                    /\ contacts' = [b \in Dynamic |->
                                       contacts[b] + IF shouldSquish(e.body[b])
                                                     THEN holding(b, pairs) ELSE 0]
    /\ lastCall' = "other"
    /\ UNCHANGED <<page, view, config, started, refs, canvases, edits>>

\* The oldest pending setTimeout callback runs: it scales the body its
\* closure holds, whatever has happened to that body's engine since.
Timeout ==
    /\ due(timers)
    /\ LET w == Head(timers)[1]
           b == Head(timers)[2]
       IN engines' = [engines EXCEPT ![w].body[b] = restore(@)]
    /\ mutations' = mutations + 1
    /\ timers' = afterTimer(timers)
    /\ lastCall' = "other"
    /\ UNCHANGED contacts
    /\ UNCHANGED <<page, view, config, started, display, refs, canvases, edits>>

\* ------------------------------------------------------------- handlers
handleStart ==
    /\ Len(engines) < MaxEngines
    /\ LET id == Len(engines) + 1
           torn == clearEngine(stopRender(engines, renderRef), engineRef)
       IN /\ engines' = Append(torn, newEngine(worldBodies(page, view,
                               sizeLeft, sizeRight, massLeft, massRight,
                               materialLeft, materialRight),
                               worldPositions(page, view, sizeLeft, sizeRight)))
          /\ canvases' = removeCanvas(canvases, renderRef) \cup {id}
          /\ engineRef' = id
          /\ renderRef' = id
    /\ started' = TRUE
    /\ lastCall' = "handleStart"
    /\ UNCHANGED contacts
    /\ UNCHANGED <<page, view, config, display, timers, mutations, edits>>

startedToggled(s) == ~s

\* setStarted(false)
startedAfterReset(s) == FALSE

\* handleReset of pages/index.tsx
handleReset ==
    /\ page = "index"
    /\ engines' = clearEngine(stopRender(engines, renderRef), engineRef)
    /\ engineRef' = 0
    /\ renderRef' = 0
    /\ canvases' = {}
    /\ velocityLeftDisplay' = 0
    /\ velocityRightDisplay' = 0
    /\ started' = startedAfterReset(started)
    /\ lastCall' = "handleReset"
    /\ UNCHANGED contacts
    /\ UNCHANGED <<page, view, config, timers, mutations, edits>>

\* handleReset of the second copy: the scene is emptied, the refs are kept.
handleResetCopy ==
    /\ page = "part_000"
    /\ canvases' = {}
    /\ velocityLeftDisplay' = 0
    /\ velocityRightDisplay' = 0
    /\ started' = startedAfterReset(started)
    /\ lastCall' = "handleReset"
    /\ UNCHANGED contacts
    /\ UNCHANGED <<page, view, config, refs, engines, timers, mutations, edits>>

setSizeLeftLive ==
    /\ edits < MaxEdits
    /\ \E v \in Sizes \ {sizeLeft} :
         /\ sizeLeft' = v
         /\ engines' = IF engineRef = 0 THEN engines
                       ELSE [engines EXCEPT ![engineRef].body["left"].width = RatOfInt(v),
                                            ![engineRef].body["left"].height = RatOfInt(v)]
    /\ edits' = edits + 1
    /\ lastCall' = "other"
    /\ UNCHANGED contacts
    /\ UNCHANGED <<page, view, sizeRight, massLeft, massRight, materialLeft,
                   materialRight, started, display, refs, canvases, timers,
                   mutations>>

\* The form's onChange handlers.
setSizeLeft ==
    /\ edits < MaxEdits
    /\ \E v \in Sizes \ {sizeLeft} : sizeLeft' = v
    /\ edits' = edits + 1
    /\ lastCall' = "other"
    /\ UNCHANGED contacts
    /\ UNCHANGED <<page, view, sizeRight, massLeft, massRight, materialLeft,
                   materialRight, started, display, refs, engines, canvases, timers,
                   mutations>>

setSizeRight ==
    /\ edits < MaxEdits
    /\ \E v \in Sizes \ {sizeRight} : sizeRight' = v
    /\ edits' = edits + 1
    /\ lastCall' = "other"
    /\ UNCHANGED contacts
    /\ UNCHANGED <<page, view, sizeLeft, massLeft, massRight, materialLeft,
                   materialRight, started, display, refs, engines, canvases, timers,
                   mutations>>

setMaterialLeft ==
    /\ edits < MaxEdits
    /\ \E v \in MaterialNames \ {materialLeft} : materialLeft' = v
    /\ edits' = edits + 1
    /\ lastCall' = "other"
    /\ UNCHANGED contacts
    /\ UNCHANGED <<page, view, sizeLeft, sizeRight, massLeft, massRight,
                   materialRight, started, display, refs, engines, canvases, timers,
                   mutations>>

setMaterialRight ==
    /\ edits < MaxEdits
    /\ \E v \in MaterialNames \ {materialRight} : materialRight' = v
    /\ edits' = edits + 1
    /\ lastCall' = "other"
    /\ UNCHANGED contacts
    /\ UNCHANGED <<page, view, sizeLeft, sizeRight, massLeft, massRight,
                   materialLeft, started, display, refs, engines, canvases, timers,
                   mutations>>

setMassLeft ==
    /\ page = "part_000"
    /\ edits < MaxEdits
    /\ \E v \in Masses \ {massLeft} : massLeft' = v
    /\ edits' = edits + 1
    /\ lastCall' = "other"
    /\ UNCHANGED contacts
    /\ UNCHANGED <<page, view, sizeLeft, sizeRight, massRight, materialLeft,
                   materialRight, started, display, refs, engines, canvases, timers,
                   mutations>>

setMassRight ==
    /\ page = "part_000"
    /\ edits < MaxEdits
    /\ \E v \in Masses \ {massRight} : massRight' = v
    /\ edits' = edits + 1
    /\ lastCall' = "other"
    /\ UNCHANGED contacts
    /\ UNCHANGED <<page, view, sizeLeft, sizeRight, massLeft, materialLeft,
                   materialRight, started, display, refs, engines, canvases, timers,
                   mutations>>

\* -------------------------------------------------------- specification
Init ==
    /\ page \in Pages
    /\ view \in Views
    /\ \E f \in Forms :
         /\ sizeLeft = f[1]
         /\ sizeRight = f[2]
         /\ massLeft = f[3]
         /\ massRight = f[4]
         /\ materialLeft = f[5]
         /\ materialRight = f[6]
    /\ started = FALSE
    /\ velocityLeftDisplay = 0
    /\ velocityRightDisplay = 0
    /\ engineRef = 0
    /\ renderRef = 0
    /\ engines = <<>>
    /\ canvases = {}
    /\ timers = <<>>
    /\ mutations = 0
    /\ edits = 0
    /\ contacts = NoContacts
    /\ lastCall = "none"

\* The page mounted in a scene of any of the sampled dimensions.
ArenaInit ==
    /\ page \in Pages
    /\ view \in Arenas
    /\ \E f \in Forms :
         /\ sizeLeft = f[1]
         /\ sizeRight = f[2]
         /\ massLeft = f[3]
         /\ massRight = f[4]
         /\ materialLeft = f[5]
         /\ materialRight = f[6]
    /\ started = FALSE
    /\ velocityLeftDisplay = 0
    /\ velocityRightDisplay = 0
    /\ engineRef = 0
    /\ renderRef = 0
    /\ engines = <<>>
    /\ canvases = {}
    /\ timers = <<>>
    /\ mutations = 0
    /\ edits = 0
    /\ contacts = NoContacts
    /\ lastCall = "none"

Frame == \E w \in 1..MaxEngines : Tick(w)

Next ==
    \/ handleStart
    \/ handleReset
    \/ handleResetCopy
    \/ Frame
    \/ Timeout

Edit ==
    \/ setSizeLeft
    \/ setSizeRight
    \/ setMaterialLeft
    \/ setMaterialRight
    \/ setMassLeft
    \/ setMassRight

Spec == Init /\ [][Next]_vars

\* The browser runs every pending timer callback.
LiveSpec == Spec /\ WF_vars(Timeout)

\* The handlers alone, in scenes of every sampled dimension.
Click ==
    \/ handleStart
    \/ handleReset
    \/ handleResetCopy

ArenaSpec == ArenaInit /\ [][Click]_vars

\* The page as it is mounted: the form holds its initial values.
FormInit ==
    /\ Init
    /\ config = <<60, 60, 1, 1, "rubber", "rubber">>

\* The page with its form in use.
FormSpec == FormInit /\ [][Next \/ Edit]_vars

\* The form and the two buttons alone, between frames.
EditSpec == FormInit /\ [][Click \/ Edit]_vars

\* ----------------------------------------------------------- properties
Engines == 1..Len(engines)

\* The restore callbacks pending for body b of engine w: the body is
\* Squished while there is one, Normal when there is none.
pending(w, b) == Cardinality({i \in 1..Len(timers) : timers[i] = <<w, b>>})

AsMade(w, b) ==
    /\ engines[w].body[b].width = engines[w].made[b].width
    /\ engines[w].body[b].height = engines[w].made[b].height

SquishedOnce(w, b) ==
    /\ engines[w].body[b].width = RatMul(engines[w].made[b].width, SquishX)
    /\ engines[w].body[b].height = RatMul(engines[w].made[b].height, SquishY)

\* C1: after reset, until the next start, no Matter.Body.scale call is made:
\* the count of body mutations stays what it was at the reset.
C1_MutationsFrozenAfterReset == [][~started => mutations' = mutations]_vars

\* C2: at most one engine has a runner ticking it.
C2_AtMostOneRunner ==
    Cardinality({w \in Engines : engines[w].runner}) <= 1

\* C3: after reset, until the next start, no engine is updated: no frame
\* of any runner runs.
C3_NoFrameAfterReset == [][~started => \A w \in 1..MaxEngines : ~Tick(w)]_vars

\* C4: handleReset called first of all, or right after handleReset, changes
\* nothing of the page.
C4_ResetIdempotent ==
    [][(lastCall \in {"none", "handleReset"} /\ lastCall' = "handleReset")
          => (pageState' = pageState /\ mutations' = mutations)]_vars

C4_ResetWithoutWorld == lastCall = "handleReset" /\ engines = <<>>

\* C5: every square has its dimensions as made, or those scaled once by
\* (1.2, 0.8): squishes never compound.
C5_SquishNeverCompounds ==
    \A w \in Engines : \A b \in Dynamic : AsMade(w, b) \/ SquishedOnce(w, b)

\* C6: the width and height of every square, which the engine's detector
\* uses, are always those it was made with.
C6_PhysicsBoxConstant == \A w \in Engines : \A b \in Dynamic : AsMade(w, b)

C8_OnlyRubberSquaresDeform ==
    \A w \in Engines : \A b \in BodyNames :
        (engines[w].body[b].isStatic \/ engines[w].body[b].label # "rubber")
            => (pending(w, b) = 0 /\ AsMade(w, b)
                /\ engines[w].body[b].mass = engines[w].made[b].mass)

C8_PlasticHitBesideRubber ==
    \E w \in Engines :
        /\ engines[w].body["right"].label = "plastic"
        /\ engines[w].body["right"].vx # engines[w].made["right"].vx
        /\ pending(w, "left") > 0

\* C9: whenever some square is Squished, eventually every square is Normal
\* again: each squish is reverted.
C9_SquishReverts ==
    (\E w \in Engines : \E b \in Dynamic : pending(w, b) > 0)
        ~> (\A w \in Engines : \A b \in Dynamic : pending(w, b) = 0)

C9_RevertedWhileLive ==
    /\ started
    /\ engineRef \in Engines
    /\ timers = <<>>
    /\ mutations >= 2
    /\ Dynamic \subseteq engines[engineRef].world

\* p < q for fractions with positive denominators.
RatLess(p, q) == p[1] * q[2] < q[1] * p[2]

\* The size and the mass square b of engine w was created with.
sizeMade(w, b) == engines[w].made[b].width[1]
massMade(w, b) == engines[w].made[b].mass

\* C11: the mass a square is created with is its size squared over 1000, a
\* function of the size alone: squares of one size have one mass, and a
\* larger square has a larger mass.
C11_MassFromSizeAlone ==
    \A w \in Engines : \A b \in Dynamic :
        /\ massMade(w, b) = Rat(sizeMade(w, b) * sizeMade(w, b), 1000)
        /\ \A w2 \in Engines : \A b2 \in Dynamic :
             /\ sizeMade(w, b) = sizeMade(w2, b2) => massMade(w, b) = massMade(w2, b2)
             /\ sizeMade(w, b) < sizeMade(w2, b2)
                  => RatLess(massMade(w, b), massMade(w2, b2))

\* p <= q for fractions with positive denominators.
RatLeq(p, q) == p[1] * q[2] <= q[1] * p[2]

\* The sides of body b of engine w as it was created.
minX(w, b) == RatSub(engines[w].at[b][1], RatMul(engines[w].made[b].width, Rat(1, 2)))
maxX(w, b) == RatAdd(engines[w].at[b][1], RatMul(engines[w].made[b].width, Rat(1, 2)))
minY(w, b) == RatSub(engines[w].at[b][2], RatMul(engines[w].made[b].height, Rat(1, 2)))
maxY(w, b) == RatAdd(engines[w].at[b][2], RatMul(engines[w].made[b].height, Rat(1, 2)))

\* Square b lies between the inner faces of the four bounds.
Enclosed(w, b) ==
    /\ RatLeq(maxX(w, "leftWall"), minX(w, b))
    /\ RatLeq(maxX(w, b), minX(w, "rightWall"))
    /\ RatLeq(maxY(w, "ceiling"), minY(w, b))
    /\ RatLeq(maxY(w, b), minY(w, "ground"))

\* The left square ends before the right square begins.
Apart(w) == RatLeq(maxX(w, "left"), minX(w, "right"))

\* C12: in a scene of any width and height and for any sizes, both squares
\* are created inside the four bounds and do not overlap each other.
C12_SpawnedInsideAndApart ==
    \A w \in Engines : Apart(w) /\ \A b \in Dynamic : Enclosed(w, b)

\* The scene is no wider or no higher than one of the configured sizes.
Degenerate ==
    \E size \in {sizeLeft, sizeRight} : view[1] <= size \/ view[2] <= size

\* C13: in a degenerate scene start creates no engine and no world (and so
\* no squares that overlap or lie outside the bounds).
C13_DegenerateStartFails ==
    Degenerate => (engines = <<>> /\ engineRef = 0 /\ renderRef = 0 /\ ~started)

\* C16: in one frame a square is squished at most once for each pair of the
\* frame's event that holds it: no pair triggers it twice.
C16_OneTriggerPerPair ==
    [][\A w \in Engines : \A b \in Dynamic :
          pending(w, b)' - pending(w, b) <= contacts'[b] - contacts[b]]_vars

C16_TwoContactsTwoSquishes ==
    \E w \in Engines :
        /\ contacts["left"] = 2
        /\ pending(w, "left") = 2
        /\ mutations = 2

\* C17: a change of the form leaves every engine, and so the size, mass,
\* material and restitution of the live world's bodies, as it was.
C17_EditLeavesWorld == [][config' # config => engines' = engines]_vars

C17_EditedWhileLive ==
    /\ edits > 0
    /\ started
    /\ engineRef \in Engines
    /\ sizeLeft # engines[engineRef].made["left"].width[1]
    /\ Dynamic \subseteq engines[engineRef].world

\* C18: the displayed speeds are only ever set to a measured value by a
\* frame of the engine the page holds: a frame of an engine that was torn
\* down never overwrites them.
C18_DisplayFromLiveWorld ==
    [][(display' # display /\ display' # <<0, 0>>)
          => (engineRef \in Engines /\ Tick(engineRef))]_vars

\* C19: started, the engine ref and the render ref agree: all set or all
\* clear.
C19_HandlesAgree ==
    /\ started <=> engineRef # 0
    /\ started <=> renderRef # 0

====
